---- MODULE Spec2Model ----
(***************************************************************************)
(* Tabular Q-learning on FrozenLake (week_1/understanding_frozenlake.ipynb) *)
(* The model covers greedy_epsilon, run_env and evaluation.  The           *)
(* environment (env.reset, env.step, env.action_space.sample) is an        *)
(* external collaborator and is modelled as a nondeterministic source of   *)
(* states, rewards and termination flags.                                  *)
(*                                                                         *)
(* Numbers: Python floats are modelled as exact rationals <<n, d>> in      *)
(* lowest terms with d > 0.  All hyperparameters, rewards and random draws *)
(* of the model are dyadic, so every value the model computes is a dyadic  *)
(* rational of a few bits and IEEE double arithmetic is exact on it.       *)
(***************************************************************************)
EXTENDS Integers, Sequences, FiniteSets

\* ---------------------------------------------------------------- bounds
NumStates   == 2   \* env.observation_space.n of the modelled environment
NumActions  == 2   \* env.action_space.n of the modelled environment
MaxSteps    == 2   \* the environment's per-episode step limit (truncation)
MaxEpisodes == 2   \* largest num_episodes considered
MaxTrials   == 2   \* largest num_trials considered
NotebookEpisodes == 1   \* largest num_episodes when evaluation follows
NumReplays  == 1000   \* updates replayed on one transition

States  == 0 .. (NumStates - 1)
Actions == 0 .. (NumActions - 1)

\* ------------------------------------------------------ float arithmetic
Abs(n) == IF n < 0 THEN -n ELSE n

RECURSIVE GCD(_, _)
GCD(a, b) == IF b = 0 THEN a ELSE GCD(b, a % b)

Rat(n, d) ==
  LET g == GCD(Abs(n), d)
  IN  IF n = 0 THEN <<0, 1>> ELSE <<n \div g, d \div g>>

Zero == <<0, 1>>
One  == <<1, 1>>
Half == <<1, 2>>

RAdd(x, y) == Rat(x[1] * y[2] + y[1] * x[2], x[2] * y[2])
RSub(x, y) == Rat(x[1] * y[2] - y[1] * x[2], x[2] * y[2])
RMul(x, y) == Rat(x[1] * y[1], x[2] * y[2])
RLt(x, y)  == x[1] * y[2] < y[1] * x[2]
RLe(x, y)  == x[1] * y[2] <= y[1] * x[2]

\* ------------------------------------------------- inputs of the model
AlphaValid   == {Half, One}
GammaValid   == {Zero, Half, One}
EpsilonValid == {Zero, Half}
AlphaAny     == AlphaValid \cup {Zero, <<3, 2>>}
GammaAny     == GammaValid \cup {<<-1, 2>>, <<3, 2>>}
EpsilonAny   == EpsilonValid \cup {<<-1, 2>>, <<3, 2>>}

\* random.uniform(0, 1) lies in [0, 1)
USamples == {Zero, Half}
\* rewards returned by env.step
Rewards  == {Zero, One}

\* what a collaborator that breaks the reset/step contract may return
BrokenStates  == (-1) .. NumStates
BrokenActions == (-1) .. NumActions

\* ------------------------------------------------------- numpy indexing
\* An index i into an axis of length n is accepted for -n <= i < n and a
\* negative index counts from the end; anything else raises IndexError.
InBounds(i, n) == i >= -n /\ i < n
Wrap(i, n)     == IF i < 0 THEN i + n ELSE i
Row(q, s)      == q[Wrap(s, NumStates)]

\* np.argmax(row): the lowest index holding the maximum
ArgMax(row) ==
  CHOOSE a \in Actions :
    /\ \A b \in Actions : RLe(row[b], row[a])
    /\ \A b \in Actions : b < a => RLt(row[b], row[a])

\* np.all(row): every entry is truthy, i.e. non-zero
NpAll(row) == \A a \in Actions : row[a] # Zero

\* np.all(row) == row[0]: a bool compared with a float
\* (True == 1.0 and False == 0.0)
DegenerateTest(row) == IF NpAll(row) THEN row[0] = One ELSE row[0] = Zero

\* greedy_epsilon(qtable, state) with its two random draws made explicit:
\* u is random.uniform(0, 1) and sample is env.action_space.sample()
greedy_epsilon(q, s, eps, u, sample) ==
  IF RLt(u, eps)
    THEN sample
    ELSE IF DegenerateTest(Row(q, s)) THEN sample ELSE ArgMax(Row(q, s))

\* greedy_epsilon indexes qtable[state, :] only in the exploitation branch
GreedyRaises(s, eps, u) == ~RLt(u, eps) /\ ~InBounds(s, NumStates)

\* ------------------------------------------------------ Q-learning update
\* np.max over a row, written without reference to ArgMax
RowMax(row) ==
  CHOOSE v \in {row[a] : a \in Actions} :
    \A b \in Actions : RLe(row[b], v)

\* update with the entry of the post-transition state written instead
update_PostState(q, al, ga, s, a, r, ns) ==
  LET next_best_action == ArgMax(Row(q, ns))
      td_target == RAdd(r, RMul(ga, Row(q, ns)[next_best_action]))
      td_error  == RSub(td_target, Row(q, s)[Wrap(a, NumActions)])
      si        == Wrap(ns, NumStates)
      ai        == Wrap(a, NumActions)
  IN  [q EXCEPT ![si][ai] = RAdd(q[si][ai], RMul(al, td_error))]

\* update with "=" in place of "+=" on line 188
update_Assign(q, al, ga, s, a, r, ns) ==
  LET next_best_action == ArgMax(Row(q, ns))
      td_target == RAdd(r, RMul(ga, Row(q, ns)[next_best_action]))
      td_error  == RSub(td_target, Row(q, s)[Wrap(a, NumActions)])
      si        == Wrap(s, NumStates)
      ai        == Wrap(a, NumActions)
  IN  [q EXCEPT ![si][ai] = RMul(al, td_error)]

\* update that adds alpha * td_target, without subtracting the old value
update_AddsTarget(q, al, ga, s, a, r, ns) ==
  LET next_best_action == ArgMax(Row(q, ns))
      td_target == RAdd(r, RMul(ga, Row(q, ns)[next_best_action]))
      si        == Wrap(s, NumStates)
      ai        == Wrap(a, NumActions)
  IN  [q EXCEPT ![si][ai] = RAdd(q[si][ai], RMul(al, td_target))]

\* lines 185-188 of run_env: the temporal-difference update of one entry
update(q, al, ga, s, a, r, ns) ==
  LET next_best_action == ArgMax(Row(q, ns))
      td_target == RAdd(r, RMul(ga, Row(q, ns)[next_best_action]))
      td_error  == RSub(td_target, Row(q, s)[Wrap(a, NumActions)])
      si        == Wrap(s, NumStates)
      ai        == Wrap(a, NumActions)
  IN  [q EXCEPT ![si][ai] = RAdd(q[si][ai], RMul(al, td_error))]

\* lines 185-188 index qtable[new_state, :] and qtable[state, action]
UpdateRaises(s, a, ns) ==
  \/ ~InBounds(ns, NumStates)
  \/ ~InBounds(s, NumStates)
  \/ ~InBounds(a, NumActions)

\* done that forgets truncation
IsDone_TerminatedOnly(term, trunc) == term

\* done with "and" in place of "or"
IsDone_Both(term, trunc) == term /\ trunc

\* done = terminated or truncated
IsDone(term, trunc) == term \/ trunc

\* success test with >= in place of ==
IsSuccess_AtLeast(er) == RLe(One, er)

\* if episode_reward == 1
IsSuccess(er) == er = One

\* the step limit of the environment: truncation is forced at MaxSteps
TruncChoices(n) == IF n + 1 >= MaxSteps THEN {TRUE} ELSE BOOLEAN

RECURSIVE SumSeq(_)
SumSeq(sq) == IF sq = <<>> THEN Zero ELSE RAdd(sq[1], SumSeq(Tail(sq)))

ZeroTable == [s \in States |-> [a \in Actions |-> Zero]]

\* np.zeros((n, m)): a negative dimension raises ValueError, a zero
\* dimension gives an empty array
NpZerosRaises(n, m) == n < 0 \/ m < 0
np_zeros(n, m) == [s \in 0 .. (n - 1) |-> [a \in 0 .. (m - 1) |-> Zero]]

\* ------------------------------------------------------------------ state
VARIABLES
  alpha, gamma, epsilon, num_episodes,   \* module-level hyperparameters
  num_trials,                            \* argument of evaluation
  pc,                                    \* position in the notebook's last cell
  qtable,                                \* the Q-table
  returned,                              \* the table run_env returned
  episode,                               \* iterations of the for loop done
  state, done, episode_rewards, episode_steps,
  action, new_state, reward, terminated, truncated,
  rewards, steps,                        \* per-episode statistics
  num_successes, success_rate,
  obs_n, act_n,                          \* env.observation_space.n, env.action_space.n
  envlog,                                \* rewards the environment returned,
                                         \* one sequence per reset
  num_updates,                           \* times line 188 has run in run_env
  live                                   \* states run_env got from reset or from
                                         \* a step that did not end the episode

\* the module-level configuration: hyperparameters and the dimensions of env
hyper == <<alpha, gamma, epsilon, num_episodes, obs_n, act_n>>
\* bookkeeping about run_env that the program itself does not store
ghost == <<num_updates, live>>
locals == <<action, new_state, reward, terminated, truncated>>
vars == <<alpha, gamma, epsilon, num_episodes, num_trials, pc, qtable,
          returned, episode, state, done, episode_rewards, episode_steps,
          action, new_state, reward, terminated, truncated, rewards, steps,
          num_successes, success_rate, obs_n, act_n, envlog, num_updates,
          live>>

\* The state after the hyperparameter cell has run and before run_env is
\* called.  Locals that Python has not bound yet hold a fixed placeholder.
InitDims(AlphaSet, GammaSet, EpsilonSet, MaxN, ObsSet, ActSet) ==
  /\ alpha \in AlphaSet
  /\ gamma \in GammaSet
  /\ epsilon \in EpsilonSet
  /\ num_episodes \in 0 .. MaxN
  /\ num_trials = 0
  /\ pc = "start"
  /\ qtable = ZeroTable
  /\ returned = ZeroTable
  /\ episode = 0
  /\ state = 0
  /\ done = FALSE
  /\ episode_rewards = Zero
  /\ episode_steps = 0
  /\ action = 0
  /\ new_state = 0
  /\ reward = Zero
  /\ terminated = FALSE
  /\ truncated = FALSE
  /\ rewards = <<>>
  /\ steps = <<>>
  /\ num_successes = 0
  /\ success_rate = Zero
  /\ envlog = <<>>
  /\ obs_n \in ObsSet
  /\ act_n \in ActSet
  /\ num_updates = 0
  /\ live = {}

\* the environment reports NumStates states and NumActions actions
InitWith(AlphaSet, GammaSet, EpsilonSet, MaxN) ==
  InitDims(AlphaSet, GammaSet, EpsilonSet, MaxN, {NumStates}, {NumActions})

Init == InitWith(AlphaValid, GammaValid, EpsilonValid, MaxEpisodes)

\* ---------------------------------------------------------------- run_env
\* lines 173-175
RunEnvStart ==
  /\ pc = "start"
  /\ IF NpZerosRaises(obs_n, act_n)
       THEN /\ pc' = "error"
            /\ UNCHANGED <<qtable, rewards, steps, episode>>
       ELSE /\ qtable' = np_zeros(obs_n, act_n)
            /\ rewards' = <<>>
            /\ steps' = <<>>
            /\ episode' = 0
            /\ pc' = "t_for"
  /\ UNCHANGED <<hyper, ghost, num_trials, returned, state, done, episode_rewards,
                 episode_steps, locals, num_successes, success_rate, envlog>>

\* an episode start that does not zero the per-episode accumulators
TrainEpisodeStart_NoZero(EnvStates) ==
  /\ pc = "t_for"
  /\ episode < num_episodes
  /\ \E s0 \in EnvStates : state' = s0 /\ live' = live \cup {s0}
  /\ done' = FALSE
  /\ envlog' = Append(envlog, <<>>)
  /\ pc' = "t_while"
  /\ UNCHANGED <<hyper, num_updates, num_trials, qtable, returned, episode, locals,
                 rewards, steps, num_successes, success_rate,
                 episode_rewards, episode_steps>>

\* an episode start that allocates a fresh table
TrainEpisodeStart_Realloc(EnvStates) ==
  /\ pc = "t_for"
  /\ episode < num_episodes
  /\ \E s0 \in EnvStates : state' = s0 /\ live' = live \cup {s0}
  /\ done' = FALSE
  /\ episode_rewards' = Zero
  /\ episode_steps' = 0
  /\ envlog' = Append(envlog, <<>>)
  /\ qtable' = np_zeros(obs_n, act_n)
  /\ pc' = "t_while"
  /\ UNCHANGED <<hyper, num_updates, num_trials, returned, episode,
                 locals, rewards, steps, num_successes, success_rate>>

\* a for loop that runs one iteration too many
TrainEpisodeStart_OneMore(EnvStates) ==
  /\ pc = "t_for"
  /\ episode <= num_episodes
  /\ \E s0 \in EnvStates : state' = s0 /\ live' = live \cup {s0}
  /\ done' = FALSE
  /\ episode_rewards' = Zero
  /\ episode_steps' = 0
  /\ envlog' = Append(envlog, <<>>)
  /\ pc' = "t_while"
  /\ UNCHANGED <<hyper, num_updates, num_trials, qtable, returned, episode,
                 locals, rewards, steps, num_successes, success_rate>>

\* lines 176-180: one more iteration of the for loop starts
TrainEpisodeStart(EnvStates) ==
  /\ pc = "t_for"
  /\ episode < num_episodes
  /\ \E s0 \in EnvStates : state' = s0 /\ live' = live \cup {s0}
  /\ done' = FALSE
  /\ episode_rewards' = Zero
  /\ episode_steps' = 0
  /\ envlog' = Append(envlog, <<>>)
  /\ pc' = "t_while"
  /\ UNCHANGED <<hyper, num_updates, num_trials, qtable, returned, episode, locals,
                 rewards, steps, num_successes, success_rate>>

\* what env.step did to the environment's history
LogStep(r) == [envlog EXCEPT ![Len(envlog)] = Append(@, r)]

\* The table np.zeros built has no rows or no columns: every index into it
\* raises.  (The model's dimensions are NumStates x NumActions otherwise.)
EmptyDims == obs_n = 0 \/ act_n = 0

\* a loop body that skips the update on the step that ends the episode
TrainStepBody_SkipsLast(a, ns, r, term, trunc) ==
  /\ action' = a
  /\ new_state' = ns
  /\ reward' = r
  /\ terminated' = term
  /\ truncated' = trunc
  /\ envlog' = [envlog EXCEPT ![Len(envlog)] = Append(@, r)]
  /\ IF EmptyDims \/ UpdateRaises(state, a, ns)
       THEN /\ pc' = "error"
            /\ UNCHANGED <<qtable, state, done, episode_rewards,
                           episode_steps, ghost>>
       ELSE /\ IF term \/ trunc
                 THEN UNCHANGED <<qtable, num_updates>>
                 ELSE /\ qtable' = update(qtable, alpha, gamma, state, a,
                                          r, ns)
                      /\ num_updates' = num_updates + 1
            /\ state' = ns
            /\ live' = IF term \/ trunc THEN live ELSE live \cup {ns}
            /\ episode_rewards' = RAdd(episode_rewards, r)
            /\ episode_steps' = episode_steps + 1
            /\ done' = term \/ trunc
            /\ pc' = "t_while"
  /\ UNCHANGED <<hyper, num_trials, returned, episode, rewards, steps,
                 num_successes, success_rate>>

\* lines 183-192: the body of the while loop
TrainStepBody(a, ns, r, term, trunc) ==
  /\ action' = a
  /\ new_state' = ns
  /\ reward' = r
  /\ terminated' = term
  /\ truncated' = trunc
  /\ envlog' = LogStep(r)
  /\ IF EmptyDims \/ UpdateRaises(state, a, ns)
       THEN /\ pc' = "error"
            /\ UNCHANGED <<qtable, state, done, episode_rewards,
                           episode_steps, ghost>>
       ELSE /\ qtable' = update(qtable, alpha, gamma, state, a, r, ns)
            /\ num_updates' = num_updates + 1
            /\ state' = ns
            /\ live' = IF term \/ trunc THEN live ELSE live \cup {ns}
            /\ episode_rewards' = RAdd(episode_rewards, r)
            /\ episode_steps' = episode_steps + 1
            /\ done' = IsDone(term, trunc)
            /\ pc' = "t_while"
  /\ UNCHANGED <<hyper, num_trials, returned, episode, rewards, steps,
                 num_successes, success_rate>>

TrainStep(EnvStates, Samples) ==
  /\ pc = "t_while"
  /\ ~done
  /\ \E u \in USamples :
       IF GreedyRaises(state, epsilon, u) \/ (EmptyDims /\ ~RLt(u, epsilon))
         THEN /\ pc' = "error"
              /\ UNCHANGED <<hyper, ghost, num_trials, qtable, returned, episode,
                             state, done, episode_rewards, episode_steps,
                             locals, rewards, steps, num_successes,
                             success_rate, envlog>>
         ELSE \E sample \in Samples, ns \in EnvStates, r \in Rewards,
                 term \in BOOLEAN, trunc \in TruncChoices(episode_steps) :
                TrainStepBody(IF EmptyDims
                                THEN sample
                                ELSE greedy_epsilon(qtable, state, epsilon,
                                                    u, sample),
                              ns, r, term, trunc)

\* lines 194-195
TrainEpisodeEnd ==
  /\ pc = "t_while"
  /\ done
  /\ rewards' = Append(rewards, episode_rewards)
  /\ steps' = Append(steps, episode_steps)
  /\ episode' = episode + 1
  /\ pc' = "t_for"
  /\ UNCHANGED <<hyper, ghost, num_trials, qtable, returned, state, done,
                 episode_rewards, episode_steps, locals, num_successes,
                 success_rate, envlog>>

\* lines 197-200 and 259: np.max of an empty list raises ValueError.
\* On return the locals of run_env are gone; only the table survives.
RunEnvReturn ==
  /\ pc = "t_for"
  /\ episode = num_episodes
  /\ IF steps = <<>>
       THEN pc' = "error" /\ UNCHANGED returned
       ELSE pc' = "trained" /\ returned' = qtable
  /\ episode' = 0
  /\ state' = 0
  /\ done' = FALSE
  /\ episode_rewards' = Zero
  /\ episode_steps' = 0
  /\ action' = 0
  /\ new_state' = 0
  /\ reward' = Zero
  /\ terminated' = FALSE
  /\ truncated' = FALSE
  /\ rewards' = <<>>
  /\ steps' = <<>>
  /\ envlog' = <<>>
  /\ num_updates' = 0
  /\ live' = {}
  /\ UNCHANGED <<hyper, num_trials, qtable, num_successes, success_rate>>

\* ------------------------------------------------------------- evaluation
\* lines 218-221 (the notebook calls evaluation(qtable, 10))
EvaluationStart ==
  /\ pc = "trained"
  /\ num_trials' \in 0 .. MaxTrials
  /\ num_successes' = 0
  /\ rewards' = <<>>
  /\ steps' = <<>>
  /\ pc' = "e_for"
  /\ UNCHANGED <<hyper, ghost, qtable, returned, episode, state, done,
                 episode_rewards, episode_steps, locals, success_rate,
                 envlog>>

\* lines 222-226
EvalEpisodeStart(EnvStates) ==
  /\ pc = "e_for"
  /\ episode < num_trials
  /\ \E s0 \in EnvStates : state' = s0
  /\ done' = FALSE
  /\ episode_rewards' = Zero
  /\ episode_steps' = 0
  /\ envlog' = Append(envlog, <<>>)
  /\ pc' = "e_while"
  /\ UNCHANGED <<hyper, ghost, num_trials, qtable, returned, episode, locals,
                 rewards, steps, num_successes, success_rate>>

\* an evaluation step that also applies the training update
EvalStepBody_Learns(ns, r, term, trunc) ==
  /\ action' = ArgMax(Row(qtable, state))
  /\ new_state' = ns
  /\ reward' = r
  /\ terminated' = term
  /\ truncated' = trunc
  /\ envlog' = [envlog EXCEPT ![Len(envlog)] = Append(@, r)]
  /\ qtable' = update(qtable, alpha, gamma, state,
                      ArgMax(Row(qtable, state)), r, ns)
  /\ state' = ns
  /\ episode_rewards' = RAdd(episode_rewards, r)
  /\ episode_steps' = episode_steps + 1
  /\ done' = term \/ trunc
  /\ pc' = "e_while"
  /\ UNCHANGED <<hyper, ghost, num_trials, returned, episode, rewards,
                 steps, num_successes, success_rate>>

\* an evaluation step that selects its action with greedy_epsilon
EvalStepBody_Explores(ns, r, term, trunc) ==
  /\ \E u \in USamples, sample \in Actions :
       action' = greedy_epsilon(qtable, state, epsilon, u, sample)
  /\ new_state' = ns
  /\ reward' = r
  /\ terminated' = term
  /\ truncated' = trunc
  /\ envlog' = [envlog EXCEPT ![Len(envlog)] = Append(@, r)]
  /\ state' = ns
  /\ episode_rewards' = RAdd(episode_rewards, r)
  /\ episode_steps' = episode_steps + 1
  /\ done' = term \/ trunc
  /\ pc' = "e_while"
  /\ UNCHANGED <<hyper, ghost, num_trials, qtable, returned, episode,
                 rewards, steps, num_successes, success_rate>>

\* lines 228-233: the body of the while loop
EvalStepBody(ns, r, term, trunc) ==
  /\ action' = ArgMax(Row(qtable, state))
  /\ new_state' = ns
  /\ reward' = r
  /\ terminated' = term
  /\ truncated' = trunc
  /\ envlog' = LogStep(r)
  /\ state' = ns
  /\ episode_rewards' = RAdd(episode_rewards, r)
  /\ episode_steps' = episode_steps + 1
  /\ done' = IsDone(term, trunc)
  /\ pc' = "e_while"
  /\ UNCHANGED <<hyper, ghost, num_trials, qtable, returned, episode, rewards,
                 steps, num_successes, success_rate>>

EvalStep(EnvStates) ==
  /\ pc = "e_while"
  /\ ~done
  /\ IF ~InBounds(state, NumStates)
       THEN /\ pc' = "error"
            /\ UNCHANGED <<hyper, ghost, num_trials, qtable, returned, episode,
                           state, done, episode_rewards, episode_steps,
                           locals, rewards, steps, num_successes,
                           success_rate, envlog>>
       ELSE \E ns \in EnvStates, r \in Rewards, term \in BOOLEAN,
               trunc \in TruncChoices(episode_steps) :
              EvalStepBody(ns, r, term, trunc)

\* lines 235-238
EvalEpisodeEnd ==
  /\ pc = "e_while"
  /\ done
  /\ rewards' = Append(rewards, episode_rewards)
  /\ steps' = Append(steps, episode_steps)
  /\ num_successes' = IF IsSuccess(episode_rewards)
                        THEN num_successes + 1 ELSE num_successes
  /\ episode' = episode + 1
  /\ pc' = "e_for"
  /\ UNCHANGED <<hyper, ghost, num_trials, qtable, returned, state, done,
                 episode_rewards, episode_steps, locals, success_rate,
                 envlog>>

\* lines 240-243: np.max of an empty list raises ValueError
EvaluationReturn ==
  /\ pc = "e_for"
  /\ episode = num_trials
  /\ IF steps = <<>>
       THEN pc' = "error" /\ UNCHANGED success_rate
       ELSE pc' = "evaluated" /\ success_rate' = Rat(num_successes, num_trials)
  /\ UNCHANGED <<hyper, ghost, num_trials, qtable, returned, episode, state, done,
                 episode_rewards, episode_steps, locals, rewards, steps,
                 num_successes, envlog>>

\* --------------------------------------------------------- specifications
\* run_env() alone
TrainNext(EnvStates, Samples) ==
  \/ RunEnvStart
  \/ TrainEpisodeStart(EnvStates)
  \/ TrainStep(EnvStates, Samples)
  \/ TrainEpisodeEnd
  \/ RunEnvReturn

\* evaluation(qtable, num_trials) alone
EvalNext(EnvStates) ==
  \/ EvaluationStart
  \/ EvalEpisodeStart(EnvStates)
  \/ EvalStep(EnvStates)
  \/ EvalEpisodeEnd
  \/ EvaluationReturn

\* Training with an environment that honours its reset/step contract,
\* for every valid hyperparameter setting of the model.
Next == TrainNext(States, Actions)
Spec == Init /\ [][Next]_vars

\* The notebook's last cell: qtable = run_env(); evaluation(qtable, n),
\* after a short training run.
NotebookInit == InitWith(AlphaValid, GammaValid, EpsilonValid, NotebookEpisodes)
NotebookNext == TrainNext(States, Actions) \/ EvalNext(States)
SpecNotebook == NotebookInit /\ [][NotebookNext]_vars

\* An environment that breaks its contract: reset, step and sample may
\* return indices just outside [0, S) and [0, A).
BrokenInit == InitWith({Half}, {Half}, EpsilonValid, NotebookEpisodes)
BrokenNext == TrainNext(BrokenStates, BrokenActions)
SpecBroken == BrokenInit /\ [][BrokenNext]_vars

\* Hyperparameters inside and outside their declared intervals.
AnyConfigInit == InitWith(AlphaAny, GammaAny, EpsilonAny, NotebookEpisodes)
SpecAnyConfig == AnyConfigInit /\ [][Next]_vars

\* An environment that reports a non-positive number of states or actions.
DimsInit ==
  InitDims({Half}, {Half}, EpsilonValid, NotebookEpisodes,
           {-1, 0, NumStates}, {-1, 0, NumActions})
SpecDims == DimsInit /\ [][Next]_vars

\* The notebook is one thread of blocking calls: whenever a next statement
\* exists it is executed, and the environment ends every episode within
\* MaxSteps steps.
FairInit == InitWith({One}, {Zero}, {Half}, MaxEpisodes)
SpecFair == FairInit /\ [][NotebookNext]_vars /\ WF_vars(NotebookNext)

\* ------------------------------------------------- replaying one update
\* Decimal hyperparameters (0.1, 0.9) are not dyadic, so the replay carries
\* table values in fixed point: an integer n stands for n / FxScale, and a
\* product with a rational hyperparameter is rounded toward zero.  Each
\* update loses less than two units, and an error made k updates ago has
\* shrunk by (1 - alpha * (1 - gamma)) ^ k, so after any number of updates
\* with alpha = 0.1, gamma = 0.9 the value is below the exact one by less
\* than 200 units (2e-5); double rounding is far smaller still.
FxScale == 10000000
FxOf(x) == (x[1] * FxScale) \div x[2]
FxMul(x, n) == (x[1] * n) \div x[2]

\* np.argmax on a row of fixed-point values
FxArgMax(row) ==
  CHOOSE a \in Actions :
    /\ \A b \in Actions : row[b] <= row[a]
    /\ \A b \in Actions : b < a => row[b] < row[a]

\* the update without the discounted value of the next state
update_fx_NoBootstrap(q, al, ga, s, a, r, ns) ==
  LET td_target == r
      td_error  == td_target - q[s][a]
  IN  [q EXCEPT ![s][a] = q[s][a] + FxMul(al, td_error)]

\* lines 185-188 on fixed-point values
update_fx(q, al, ga, s, a, r, ns) ==
  LET next_best_action == FxArgMax(q[ns])
      td_target == r + FxMul(ga, q[ns][next_best_action])
      td_error  == td_target - q[s][a]
  IN  [q EXCEPT ![s][a] = q[s][a] + FxMul(al, td_error)]

\* an all-zero table and one transition (s, a, r = 1, s') to replay
ReplayStart ==
  /\ pc = "start"
  /\ pc' = "replay"
  /\ qtable' = [s \in States |-> [a \in Actions |-> 0]]
  /\ state' \in States
  /\ action' \in Actions
  /\ new_state' \in States
  /\ reward' = One
  /\ UNCHANGED <<hyper, ghost, num_trials, returned, episode, done,
                 episode_rewards, episode_steps, terminated, truncated,
                 rewards, steps, num_successes, success_rate, envlog>>

\* lines 185-188 applied once more to the same transition
Replay ==
  /\ pc = "replay"
  /\ num_updates < NumReplays
  /\ qtable' = update_fx(qtable, alpha, gamma, state, action, FxOf(reward),
                         new_state)
  /\ num_updates' = num_updates + 1
  /\ UNCHANGED <<hyper, live, num_trials, pc, returned, episode, state, done,
                 episode_rewards, episode_steps, locals, rewards, steps,
                 num_successes, success_rate, envlog>>

ReplayInit == InitWith({<<1, 10>>}, {<<9, 10>>}, {Zero}, 0)
ReplayNext == ReplayStart \/ Replay
SpecReplay == ReplayInit /\ [][ReplayNext]_vars

\* ------------------------------------------------------------- properties
\* a training step ran to completion
TrainStepped ==
  pc = "t_while" /\ pc' = "t_while" /\ episode_steps' = episode_steps + 1

TrainDone == pc = "t_for" /\ episode = num_episodes

InLoop == pc \in {"t_while", "e_while"}

StrictUniqueMax(row) ==
  \E a \in Actions : \A b \in Actions \ {a} : RLt(row[b], row[a])

TheMax(row) ==
  CHOOSE a \in Actions : \A b \in Actions \ {a} : RLt(row[b], row[a])

AllEqual(row) == \A a, b \in Actions : row[a] = row[b]

HyperValid ==
  /\ RLt(Zero, alpha) /\ RLe(alpha, One)
  /\ RLe(Zero, gamma) /\ RLe(gamma, One)
  /\ RLe(Zero, epsilon) /\ RLe(epsilon, One)

\* C1: every completed training step leaves
\* table[s,a] = old[s,a] + alpha * (r + gamma * max_a' old[s',a'] - old[s,a])
\* where s is the state before the step, a the action taken, r the reward
\* and s' the state the environment returned.
C1_UpdateRule ==
  [][TrainStepped =>
       LET old == qtable[state][action']
           best == RowMax(qtable[new_state'])
       IN  qtable'[state][action'] =
             RAdd(old, RMul(alpha, RSub(RAdd(reward', RMul(gamma, best)), old)))
    ]_vars

\* after the first step of the first episode the one updated entry lies in
\* a row other than that of the state the environment returned
C1_Witness ==
  /\ pc = "t_while" /\ episode = 0 /\ episode_steps = 1
  /\ gamma = Half /\ reward = One
  /\ \E s \in States : s # state /\ qtable[s][action] = alpha

\* C2: with epsilon = 0, for every row with a strict unique maximum,
\* greedy_epsilon returns the index of that maximum whatever the draws are.
C2_GreedyAtEpsilonZero ==
  epsilon = Zero =>
    \A s \in States :
      StrictUniqueMax(qtable[s]) =>
        \A u \in USamples, sample \in Actions :
          greedy_epsilon(qtable, s, epsilon, u, sample) = TheMax(qtable[s])

\* C3: in the exploitation branch, for every row whose entries are all
\* equal, every action is a possible result of greedy_epsilon.
C3_DegenerateRowIsRandom ==
  \A s \in States :
    AllEqual(qtable[s]) =>
      \A u \in USamples :
        ~RLt(u, epsilon) =>
          {greedy_epsilon(qtable, s, epsilon, u, sample) :
             sample \in Actions} = Actions

\* C4: throughout evaluation every table entry equals its value in the
\* table run_env returned.
C4_EvaluationReadOnly ==
  pc \in {"e_for", "e_while", "evaluated"} => qtable = returned

C4_Witness ==
  /\ pc = "e_while" /\ episode = 1 /\ episode_steps = 2
  /\ reward = One
  /\ returned # ZeroTable

\* C5: inside either while loop, done holds exactly when the episode has
\* stepped and terminated or truncated was true on its latest step; a step
\* is taken only while done is false, and the episode ends only when done
\* is true.
C5_DoneFlag ==
  /\ [](InLoop =>
          (done <=> (episode_steps > 0 /\ (terminated \/ truncated))))
  /\ [][InLoop =>
          /\ (episode_steps' = episode_steps + 1 => ~done)
          /\ (pc' \in {"t_for", "e_for"} => done)
       ]_vars

C5_Witness ==
  /\ pc = "e_while" /\ episode_steps = 2
  /\ done /\ truncated /\ ~terminated

\* C6 as stated: one update with r = 1 and gamma = 0 leaves
\* table[s,a] = alpha * (1 - old_value)
C6_Original ==
  [][(TrainStepped /\ reward' = One /\ gamma = Zero) =>
       qtable'[state][action'] =
         RMul(alpha, RSub(One, qtable[state][action']))
    ]_vars

\* C6 amended: one update with r = 1 and gamma = 0 leaves
\* table[s,a] = old_value + alpha * (1 - old_value), which is exactly
\* alpha when old_value = 0.
C6_Amended ==
  [][(TrainStepped /\ reward' = One /\ gamma = Zero) =>
       LET old == qtable[state][action']
       IN  /\ qtable'[state][action'] =
                RAdd(old, RMul(alpha, RSub(One, old)))
           /\ (old = Zero => qtable'[state][action'] = alpha)
    ]_vars

\* an entry that has been updated twice with r = 1 and gamma = 0, the
\* second time from the non-zero old value alpha
C6_Witness ==
  /\ pc = "t_while" /\ episode = 0 /\ episode_steps = 2
  /\ gamma = Zero /\ alpha = Half /\ reward = One
  /\ \E s \in States : qtable[s][action] = <<3, 4>>

\* C7: a step that meets a state index outside [0, S) or an action outside
\* [0, A) fails at once and leaves the table unchanged.
C7_OutOfRangePropagates ==
  [][(pc = "t_while" /\ ~done /\
        (new_state' \notin States \/ action' \notin Actions
           \/ state \notin States)) =>
       (pc' = "error" /\ qtable' = qtable)
    ]_vars

\* C8: when the for loop of run_env is over, rewards and steps have
\* num_episodes entries and the i-th entries are the reward sum and the
\* step count of the i-th episode alone.
C8_Statistics ==
  TrainDone =>
    /\ Len(rewards) = num_episodes
    /\ Len(steps) = num_episodes
    /\ Len(envlog) = num_episodes
    /\ \A i \in 1 .. num_episodes :
         /\ rewards[i] = SumSeq(envlog[i])
         /\ steps[i] = Len(envlog[i])

C8_Witness ==
  /\ TrainDone /\ num_episodes = 2
  /\ rewards = << <<2, 1>>, One >>
  /\ steps = <<2, 1>>

\* C9: when evaluation is over, num_successes is the number of episodes
\* whose accumulated reward equals 1, it lies in 0 .. num_trials, the
\* reported rate is num_successes / num_trials, and the rate is 1 when
\* every episode accumulated reward 1.
C9_SuccessRate ==
  pc = "evaluated" =>
    LET wins == {i \in 1 .. Len(envlog) : SumSeq(envlog[i]) = One}
    IN  /\ Len(envlog) = num_trials
        /\ num_successes = Cardinality(wins)
        /\ 0 <= num_successes /\ num_successes <= num_trials
        /\ success_rate[1] * num_trials = num_successes * success_rate[2]
        /\ (Cardinality(wins) = num_trials => success_rate = One)

C9_Witness ==
  /\ pc = "evaluated" /\ num_trials = 2
  /\ rewards = << <<2, 1>>, One >>
  /\ num_successes = 1
  /\ success_rate = Half

\* C10: with alpha, gamma or epsilon outside its interval the run is
\* rejected before training starts: no reset, no step, no table update.
C10_RejectedBeforeTraining ==
  ~HyperValid =>
    /\ pc \notin {"t_while", "trained"}
    /\ envlog = <<>>
    /\ qtable = ZeroTable

\* C11: when env reports S <= 0 or A <= 0, run_env fails before a table
\* is allocated and before any episode starts.
C11_InvalidDimension ==
  (obs_n <= 0 \/ act_n <= 0) =>
    /\ pc \in {"start", "error"}
    /\ envlog = <<>>

\* the replayed entry, in fixed point
Replayed == qtable[state][action]
WithinTol(n) == n - 10 * FxScale < FxScale \div 1000
                  /\ 10 * FxScale - n < FxScale \div 1000

\* C12 as stated: from an all-zero table, 1000 replays of one transition
\* (s, a, r = 1, s') with alpha = 0.1 and gamma = 0.9 move table[s,a]
\* monotonically toward 10 and leave it within 1e-3 of 10.
C12_Original ==
  /\ [](pc = "replay" /\ num_updates = NumReplays => WithinTol(Replayed))
  /\ [][pc = "replay" =>
          /\ qtable'[state][action] >= Replayed
          /\ qtable'[state][action] <= 10 * FxScale
       ]_vars

\* C12 amended: the same for a transition that returns to its own state
\* (s' = s), so that the bootstrapped value is table[s,a] itself.
C12_Amended ==
  /\ [](pc = "replay" /\ state = new_state /\ num_updates = NumReplays =>
          WithinTol(Replayed))
  /\ [][pc = "replay" /\ state = new_state =>
          /\ qtable'[state][action] >= Replayed
          /\ qtable'[state][action] <= 10 * FxScale
       ]_vars

C12_Witness ==
  /\ pc = "replay" /\ num_updates = NumReplays
  /\ state = new_state /\ action = 1
  /\ Replayed > 9 * FxScale

EvalDone == pc = "e_for" /\ episode = num_trials

\* C13: with an environment that ends every episode, run_env reaches the
\* end of its for loop after exactly num_episodes calls of reset, never
\* more, and evaluation, once called, reaches the end of its for loop after
\* exactly num_trials calls of reset.
C13_Termination ==
  /\ <>TrainDone
  /\ [](pc \in {"t_for", "t_while"} => Len(envlog) <= num_episodes)
  /\ [](TrainDone => Len(envlog) = num_episodes)
  /\ [](pc = "e_for" => <>EvalDone)
  /\ [](pc \in {"e_for", "e_while"} => Len(envlog) <= num_trials)
  /\ [](EvalDone => Len(envlog) = num_trials)

C13_Witness ==
  /\ EvalDone /\ num_trials = 2 /\ num_episodes = 2
  /\ steps = <<2, 1>>

\* C14: a training step changes no table entry other than [s, a] for the
\* pre-transition state s and the action taken, and every other operation
\* of run_env (allocation aside) leaves the whole table unchanged.
C14_UpdateFrame ==
  [][/\ TrainStepped =>
          \A s \in States, a \in Actions :
            (s # state \/ a # action') => qtable'[s][a] = qtable[s][a]
     /\ (~TrainStepped /\ pc # "start") => qtable' = qtable
    ]_vars

\* a learned table has survived the start of the second episode
C14_Witness ==
  /\ pc = "t_while" /\ episode = 1 /\ episode_steps = 0
  /\ \E s \in States, a \in Actions : qtable[s][a] = <<3, 4>>

RECURSIVE TotalSteps(_)
TotalSteps(log) ==
  IF log = <<>> THEN 0 ELSE Len(log[1]) + TotalSteps(Tail(log))

\* C15: at every point of run_env the number of updates applied equals the
\* number of environment steps taken, the step that ends an episode
\* included.
C15_OneUpdatePerStep ==
  pc \in {"t_for", "t_while"} => num_updates = TotalSteps(envlog)

\* an episode of two steps has ended and both steps were followed by an update
C15_Witness ==
  /\ pc = "t_while" /\ done /\ episode = 0
  /\ episode_steps = 2 /\ num_updates = 2
  /\ Len(envlog[1]) = 2

\* an evaluation step ran to completion
EvalStepped ==
  pc = "e_while" /\ pc' = "e_while" /\ episode_steps' = episode_steps + 1

\* the lowest index among the entries of a row that equal its maximum
LowestMax(row) ==
  CHOOSE a \in Actions :
    /\ row[a] = RowMax(row)
    /\ \A b \in Actions : row[b] = RowMax(row) => a <= b

\* C16: the action of every evaluation step is the lowest index among the
\* maxima of row table[s,:] of the current state, whatever the random
\* draws, also when all entries of the row are equal.
C16_EvaluationGreedy ==
  [][EvalStepped => action' = LowestMax(qtable[state])]_vars

\* an evaluation step on a table whose rows are all ties, one of them learned
C16_Witness ==
  /\ pc = "e_while" /\ episode_steps = 1 /\ action = 0
  /\ \A s \in States : AllEqual(qtable[s])
  /\ qtable # ZeroTable

ZeroRow == [a \in Actions |-> Zero]

\* C17: run_env takes no step from a state that an episode-ending step
\* returned, and the row of every state that reset never returned and that
\* only episode-ending steps have entered is all zero.
C17_TerminalRowsStayZero ==
  /\ [][TrainStepped =>
          ~(episode_steps > 0 /\ (terminated \/ truncated))]_vars
  /\ [](pc \in {"t_for", "t_while"} =>
          \A t \in States \ live : qtable[t] = ZeroRow)

\* two episodes are over, the last one ended in a state that was only ever
\* entered by ending steps, and the table has learned something
C17_Witness ==
  /\ pc = "t_for" /\ episode = 2
  /\ state \notin live
  /\ (terminated \/ truncated)
  /\ qtable # ZeroTable

\* C18: with rewards in [0, 1], gamma < 1 and alpha in (0, 1], every table
\* entry of every reachable training state lies in [0, 1 / (1 - gamma)].
C18_ValuesBounded ==
  (pc \in {"t_for", "t_while"} /\ RLt(gamma, One)) =>
    \A s \in States, a \in Actions :
      /\ RLe(Zero, qtable[s][a])
      /\ RLe(RMul(qtable[s][a], RSub(One, gamma)), One)

\* bootstrapping has lifted an entry above the largest single reward
C18_Witness ==
  /\ pc = "t_while" /\ gamma = Half
  /\ \E s \in States, a \in Actions : RLt(One, qtable[s][a])

====
